---- MODULE Spec2Model ----
(***************************************************************************)
(* Drafts: validation of draft dicts, and the create / edit / delete       *)
(* operations of zerver/lib/drafts.py over the Draft table and the event   *)
(* channel.                                                                *)
(*                                                                         *)
(* Timestamps are integers counted in ticks of 10^-7 s, so that values     *)
(* below the 6-decimal rounding step exist.  Strings that the code cuts    *)
(* or searches (topic, content) are sequences of characters.               *)
(***************************************************************************)
EXTENDS Integers, Sequences, FiniteSets, TLC

\* ------------------------------------------------------------------ bounds
MaxTopicLength == 2
MaxTicks == 12
MaxBatch == 2
MaxId == 1
MaxEvents == 2

\* ticks per 10^-6 s: round(timestamp, 6) keeps multiples of this
TicksPerMicro == 10
\* Python's None for recipient_id (recipient ids are positive)
None == 0

Users == {1, 2}
Sessions == {1, 2}
Ids == 1..MaxId

\* ------------------------------------------------------------ draft dicts
VALID_DRAFT_TYPES == {"", "private", "stream"}
ToLists == {<<>>, <<1>>, <<2>>, <<3>>, <<1, 2>>, <<1, 1>>}
Topics == {<<>>, <<"a">>, <<"NUL">>, <<"a", "a", "NUL">>}
Contents == {<<"h">>, <<"h", " ">>}
Timestamps == (0 - MaxTicks)..MaxTicks
Clock == {0, 7}

\* the dicts draft_dict_validator lets through, with and without "timestamp"
draft_dict_validator ==
    [type : VALID_DRAFT_TYPES, to : ToLists, topic : Topics, content : Contents,
     timestamp : Timestamps]
    \cup [type : VALID_DRAFT_TYPES, to : ToLists, topic : Topics, content : Contents]

\* ---------------------------------------------------------- collaborators
RECURSIVE rstrip(_)
rstrip(s) ==
    IF s # <<>> /\ s[Len(s)] = " " THEN rstrip(SubSeq(s, 1, Len(s) - 1)) ELSE s

normalize_body(content) == rstrip(content)

truncate_topic(topic) ==
    IF Len(topic) > MaxTopicLength THEN SubSeq(topic, 1, MaxTopicLength) ELSE topic

\* stream 1 is public, stream 2 is private to user 1, no other stream exists
StreamIds == {1, 2}
CanAccess(user_profile, stream_id) ==
    stream_id = 1 \/ (stream_id = 2 /\ user_profile = 1)
StreamRecipient(stream_id) == 10 + stream_id

access_stream_by_id(user_profile, stream_id) ==
    IF stream_id \in StreamIds /\ CanAccess(user_profile, stream_id)
    THEN [error |-> "", recipient_id |-> StreamRecipient(stream_id)]
    ELSE [error |-> "Invalid stream ID", recipient_id |-> None]

SeqToSet(s) == {s[i] : i \in 1..Len(s)}

get_user_profiles_by_ids(user_ids) ==
    IF user_ids \subseteq Users
    THEN [error |-> "", users |-> user_ids]
    ELSE [error |-> "Invalid user ID", users |-> {}]

\* one recipient per exact group of users
recipient_for_user_profiles(to_users) ==
    20 + (IF 1 \in to_users THEN 1 ELSE 0) + (IF 2 \in to_users THEN 2 ELSE 0)

timestamp_to_datetime(timestamp) == timestamp \div TicksPerMicro

\* ------------------------------------------- further_validated_draft_dict
\* round(timestamp, 6): to the nearest multiple of TicksPerMicro, a tie to
\* the even one (what Python returns for every value within MaxTicks <= 20)
round6(timestamp) ==
    LET q == timestamp \div TicksPerMicro
        r == timestamp % TicksPerMicro
    IN  IF 2 * r < TicksPerMicro THEN q * TicksPerMicro
        ELSE IF 2 * r > TicksPerMicro THEN (q + 1) * TicksPerMicro
        ELSE IF q % 2 = 0 THEN q * TicksPerMicro ELSE (q + 1) * TicksPerMicro

\* draft_dict.get("timestamp", time.time()), then the rounding
ResolvedTimestamp(draft_dict, now) ==
    round6(IF "timestamp" \in DOMAIN draft_dict THEN draft_dict.timestamp ELSE now)

Failure(msg) ==
    [error |-> msg, recipient_id |-> None, topic |-> <<>>, content |-> <<>>,
     last_edit_time |-> 0]

Valid(recipient_id, topic, content, last_edit_time) ==
    [error |-> "", recipient_id |-> recipient_id, topic |-> topic,
     content |-> content, last_edit_time |-> last_edit_time]

\* Addressing without the null byte check of the topic
Addressing_NoNullCheck(draft_dict, user_profile) ==
    LET to == draft_dict.to IN
    IF draft_dict.type = "stream" THEN
        IF Len(to) # 1
        THEN [error |-> "Must specify exactly 1 stream ID for stream messages",
              recipient_id |-> None, topic |-> <<>>]
        ELSE LET stream == access_stream_by_id(user_profile, to[1]) IN
             IF stream.error # ""
             THEN [error |-> stream.error, recipient_id |-> None, topic |-> <<>>]
             ELSE [error |-> "", recipient_id |-> stream.recipient_id,
                   topic |-> truncate_topic(draft_dict.topic)]
    ELSE IF draft_dict.type = "private" /\ Len(to) # 0 THEN
        LET to_users == get_user_profiles_by_ids(SeqToSet(to)) IN
        IF to_users.error # ""
        THEN [error |-> to_users.error, recipient_id |-> None, topic |-> <<>>]
        ELSE [error |-> "",
              recipient_id |-> recipient_for_user_profiles(to_users.users),
              topic |-> <<>>]
    ELSE [error |-> "", recipient_id |-> None, topic |-> <<>>]

\* the branch on draft_dict["type"]: [error, recipient_id, topic]
Addressing(draft_dict, user_profile) ==
    LET to == draft_dict.to IN
    IF draft_dict.type = "stream" THEN
        LET topic == truncate_topic(draft_dict.topic) IN
        IF "NUL" \in SeqToSet(topic)
        THEN [error |-> "Topic must not contain null bytes",
              recipient_id |-> None, topic |-> <<>>]
        ELSE IF Len(to) # 1
        THEN [error |-> "Must specify exactly 1 stream ID for stream messages",
              recipient_id |-> None, topic |-> <<>>]
        ELSE LET stream == access_stream_by_id(user_profile, to[1]) IN
             IF stream.error # ""
             THEN [error |-> stream.error, recipient_id |-> None, topic |-> <<>>]
             ELSE [error |-> "", recipient_id |-> stream.recipient_id,
                   topic |-> topic]
    ELSE IF draft_dict.type = "private" /\ Len(to) # 0 THEN
        LET to_users == get_user_profiles_by_ids(SeqToSet(to)) IN
        IF to_users.error # ""
        THEN [error |-> to_users.error, recipient_id |-> None, topic |-> <<>>]
        ELSE [error |-> "",
              recipient_id |-> recipient_for_user_profiles(to_users.users),
              topic |-> <<>>]
    ELSE [error |-> "", recipient_id |-> None, topic |-> <<>>]

further_validated_draft_dict(draft_dict, user_profile, now) ==
    LET content == normalize_body(draft_dict.content)
        timestamp == ResolvedTimestamp(draft_dict, now)
    IN  IF timestamp < 0 THEN Failure("Timestamp must not be negative.")
        ELSE LET last_edit_time == timestamp_to_datetime(timestamp)
                 a == Addressing(draft_dict, user_profile)
             IN  IF a.error # "" THEN Failure(a.error)
                 ELSE Valid(a.recipient_id, a.topic, content, last_edit_time)

\* ------------------------------------------------------------------ state
VARIABLES
    in_dict,    \* the draft dict handed to further_validated_draft_dict
    in_user,    \* the acting user of that call
    in_now,     \* what time.time() returns during that call
    out,        \* what the call returned
    done,       \* whether the call has returned
    store,      \* the Draft table: id -> row, for the ids stored
    next_id,    \* the next value of the table's id sequence
    events,     \* the events handed to send_event, in emission order
    enable_drafts_synchronization,  \* the flag of each user's profile
    pc,         \* per session: "idle" or the statement the request is at
    frame,      \* per session: the locals of the request in flight, and
                \* whether its write to the table has completed
    returned,   \* the request that returned in the last step, NoCall if none did
    written_by  \* per id: the draft dict whose write reached the table last

valvars == <<in_dict, in_user, in_now, out, done>>
opvars == <<store, next_id, events, enable_drafts_synchronization, pc, frame,
            returned, written_by>>
vars == <<in_dict, in_user, in_now, out, done, store, next_id, events,
          enable_drafts_synchronization, pc, frame, returned, written_by>>

NoFrame ==
    [op |-> "", user_profile |-> None, draft_id |-> None, draft_dicts |-> <<>>,
     draft_objects |-> <<>>, written |-> FALSE]
NoCall ==
    [session |-> None, op |-> "", user_profile |-> None, draft_id |-> None,
     draft_dicts |-> <<>>, index |-> 0, response |-> ""]

InitOps ==
    /\ store = <<>>
    /\ next_id = 1
    /\ events = <<>>
    /\ pc = [s \in Sessions |-> "idle"]
    /\ frame = [s \in Sessions |-> NoFrame]
    /\ returned = NoCall
    /\ written_by = <<>>

\* ------------------------------------------- the transformer on its own
InitValidate ==
    /\ in_dict \in draft_dict_validator
    /\ in_user \in Users
    /\ in_now \in Clock
    /\ out = Failure("")
    /\ done = FALSE
    /\ InitOps
    /\ enable_drafts_synchronization = [u \in Users |-> TRUE]

Validate ==
    /\ ~done
    /\ out' = further_validated_draft_dict(in_dict, in_user, in_now)
    /\ done' = TRUE
    /\ UNCHANGED <<in_dict, in_user, in_now>>
    /\ UNCHANGED opvars

NextValidate == Validate

SpecValidate == InitValidate /\ [][NextValidate]_vars

\* ------------------------------------------------------- the operations
\* the draft dicts the requests carry: a stream draft for stream 2 (which
\* user 2 cannot access), private drafts with and without a recipient, and
\* a draft of the empty type
OpDicts ==
    {d \in draft_dict_validator :
        /\ "timestamp" \in DOMAIN d /\ d.timestamp = TicksPerMicro
        /\ d.topic = <<"a">>
        /\ d.content = <<"h", " ">>
        /\ d.to \in {<<>>, <<2>>}
        /\ (d.type # "private" => d.to = <<2>>)}

Batches == UNION {[1..n -> OpDicts] : n \in 1..MaxBatch}

Draft(id, user_profile, valid_draft_dict) ==
    [id |-> id, user_profile |-> user_profile,
     recipient_id |-> valid_draft_dict.recipient_id,
     topic |-> valid_draft_dict.topic,
     content |-> valid_draft_dict.content,
     last_edit_time |-> valid_draft_dict.last_edit_time]

\* Draft.to_dict(): what an event carries of a row
to_dict(draft) ==
    [id |-> draft.id, recipient_id |-> draft.recipient_id, topic |-> draft.topic,
     content |-> draft.content, timestamp |-> draft.last_edit_time]

Event(op, drafts, draft_id, user_profile) ==
    [type |-> "drafts", op |-> op, drafts |-> drafts, draft_id |-> draft_id,
     users |-> {user_profile}]

\* a request with its arguments: in flight, and as it returns
Frame(op, user_profile, draft_id, draft_dicts, draft_objects) ==
    [op |-> op, user_profile |-> user_profile, draft_id |-> draft_id,
     draft_dicts |-> draft_dicts, draft_objects |-> draft_objects,
     written |-> FALSE]

Call(s, op, user_profile, draft_id, draft_dicts, index, response) ==
    [session |-> s, op |-> op, user_profile |-> user_profile, draft_id |-> draft_id,
     draft_dicts |-> draft_dicts, index |-> index, response |-> response]

\* the request in flight in session s returns this response
Returns(s, response) ==
    Call(s, frame[s].op, frame[s].user_profile, frame[s].draft_id,
         frame[s].draft_dicts, 0, response)

InFlight == {s \in Sessions : pc[s] # "idle"}
Quiescent == InFlight = {}
PendingInserts ==
    LET RECURSIVE Sum(_)
        Sum(S) == IF S = {} THEN 0
                  ELSE LET s == CHOOSE x \in S : TRUE
                       IN  (IF pc[s] = "bulk_create"
                            THEN Len(frame[s].draft_objects) ELSE 0)
                           + Sum(S \ {s})
    IN  Sum(Sessions)

\* room left for one more event
EventRoom == Len(events) < MaxEvents

Return(s, call) ==
    /\ pc' = [pc EXCEPT ![s] = "idle"]
    /\ frame' = [frame EXCEPT ![s] = NoFrame]
    /\ returned' = call

\* a lookup by id alone
Found_AnyOwner(draft_id, user_profile) == draft_id \in DOMAIN store

\* Draft.objects.get(id=draft_id, user_profile=user_profile) finds a row
Found(draft_id, user_profile) ==
    draft_id \in DOMAIN store /\ store[draft_id].user_profile = user_profile

\* a wrapper that calls the view whatever the flag
draft_endpoint_NoCheck(user_profile) == ""

\* draft_view_func: the message it raises, "" when it calls the view
draft_endpoint(user_profile) ==
    IF ~enable_drafts_synchronization[user_profile]
    THEN "User has disabled synchronizing drafts."
    ELSE ""

Rejected(s, op, user_profile, draft_id, draft_dicts) ==
    /\ Return(s, Call(s, op, user_profile, draft_id, draft_dicts, 0,
                      draft_endpoint(user_profile)))
    /\ UNCHANGED <<store, next_id, events, written_by>>

\* the loop of do_create_drafts: the index of the first dict that
\* further_validated_draft_dict refuses, 0 when it accepts them all
FirstInvalid(draft_dicts, user_profile) ==
    LET bad == {i \in 1..Len(draft_dicts) :
                  further_validated_draft_dict(draft_dicts[i], user_profile, in_now).error # ""}
    IN  IF bad = {} THEN 0 ELSE CHOOSE i \in bad : \A j \in bad : i <= j

\* do_create_drafts saving each draft as soon as its dict is validated
do_create_drafts_SavesInLoop(s, draft_dicts, user_profile) ==
    LET i == FirstInvalid(draft_dicts, user_profile)
        n == IF i = 0 THEN Len(draft_dicts) ELSE i - 1
        created == [k \in 1..n |->
                      Draft(next_id + k - 1, user_profile,
                            further_validated_draft_dict(draft_dicts[k], user_profile, in_now))]
    IN  /\ next_id + n - 1 <= MaxId
        /\ store' = [j \in DOMAIN store \cup {next_id + k - 1 : k \in 1..n} |->
                       IF j >= next_id THEN created[j - next_id + 1] ELSE store[j]]
        /\ written_by' = [j \in DOMAIN written_by \cup {next_id + k - 1 : k \in 1..n} |->
                            IF j >= next_id THEN draft_dicts[j - next_id + 1]
                            ELSE written_by[j]]
        /\ next_id' = next_id + n
        /\ events' = events
        /\ IF i # 0
           THEN Return(s, Call(s, "create", user_profile, None, draft_dicts, i,
                    further_validated_draft_dict(draft_dicts[i], user_profile, in_now).error))
           ELSE /\ EventRoom
                /\ pc' = [pc EXCEPT ![s] = "create_send"]
                /\ frame' = [frame EXCEPT ![s] =
                       [Frame("create", user_profile, None, draft_dicts, created)
                          EXCEPT !.written = TRUE]]
                /\ returned' = NoCall

\* do_create_drafts up to the call of bulk_create
do_create_drafts(s, draft_dicts, user_profile) ==
    LET i == FirstInvalid(draft_dicts, user_profile) IN
    IF i # 0
    THEN /\ Return(s, Call(s, "create", user_profile, None, draft_dicts, i,
                 further_validated_draft_dict(draft_dicts[i], user_profile, in_now).error))
         /\ UNCHANGED <<store, next_id, events, written_by>>
    ELSE /\ EventRoom
         /\ next_id + PendingInserts + Len(draft_dicts) - 1 <= MaxId
         /\ pc' = [pc EXCEPT ![s] = "bulk_create"]
         /\ frame' = [frame EXCEPT ![s] =
                Frame("create", user_profile, None, draft_dicts,
                      [k \in 1..Len(draft_dicts) |->
                          Draft(None, user_profile,
                                further_validated_draft_dict(draft_dicts[k], user_profile, in_now))])]
         /\ returned' = NoCall
         /\ UNCHANGED <<store, next_id, events, written_by>>

\* the create view behind draft_endpoint
CreateDrafts(s, draft_dicts, user_profile) ==
    /\ pc[s] = "idle"
    /\ UNCHANGED <<valvars, enable_drafts_synchronization>>
    /\ IF draft_endpoint(user_profile) # ""
       THEN Rejected(s, "create", user_profile, None, draft_dicts)
       ELSE do_create_drafts(s, draft_dicts, user_profile)

\* Draft.objects.bulk_create(draft_objects): one grouped insert
BulkCreate(s) ==
    /\ pc[s] = "bulk_create"
    /\ LET n == Len(frame[s].draft_objects)
           created == [k \in 1..n |->
                         [frame[s].draft_objects[k] EXCEPT !.id = next_id + k - 1]]
       IN  /\ store' = [i \in DOMAIN store \cup {next_id + k - 1 : k \in 1..n} |->
                          IF i >= next_id /\ i < next_id + n
                          THEN created[i - next_id + 1] ELSE store[i]]
           /\ written_by' =
                [i \in DOMAIN written_by \cup {next_id + k - 1 : k \in 1..n} |->
                   IF i >= next_id /\ i < next_id + n
                   THEN frame[s].draft_dicts[i - next_id + 1] ELSE written_by[i]]
           /\ next_id' = next_id + n
           /\ frame' = [frame EXCEPT ![s].draft_objects = created,
                                     ![s].written = TRUE]
    /\ pc' = [pc EXCEPT ![s] = "create_send"]
    /\ returned' = NoCall
    /\ UNCHANGED <<valvars, events, enable_drafts_synchronization>>

\* a failed write that is swallowed: the request goes on to its send_event
WriteFails_StillSends(s) ==
    /\ pc[s] \in {"bulk_create", "save", "delete"}
    /\ pc' = [pc EXCEPT ![s] = CASE pc[s] = "bulk_create" -> "create_send"
                                 [] pc[s] = "save" -> "edit_send"
                                 [] OTHER -> "delete_send"]
    /\ returned' = NoCall
    /\ UNCHANGED <<valvars, store, next_id, events, enable_drafts_synchronization,
                   frame, written_by>>

\* the store raises: the request ends there
WriteFails(s) ==
    /\ pc[s] \in {"bulk_create", "save", "delete"}
    /\ Return(s, Returns(s, "DatabaseError"))
    /\ UNCHANGED <<valvars, store, next_id, events, enable_drafts_synchronization,
                   written_by>>

\* send_event(realm, {"type": "drafts", "op": "add", ...}, [user_profile.id])
SendAdd(s) ==
    /\ pc[s] = "create_send"
    /\ EventRoom
    /\ events' = Append(events,
            Event("add",
                  [k \in 1..Len(frame[s].draft_objects) |->
                      to_dict(frame[s].draft_objects[k])],
                  None, frame[s].user_profile))
    /\ Return(s, Returns(s, "ok"))
    /\ UNCHANGED <<valvars, store, next_id, enable_drafts_synchronization,
                   written_by>>

\* the assignments without the one of recipient_id
Edited_KeepsRecipient(draft_object, valid_draft_dict) ==
    [draft_object EXCEPT
       !.content = valid_draft_dict.content,
       !.topic = valid_draft_dict.topic,
       !.last_edit_time = valid_draft_dict.last_edit_time]

\* draft_object with the four fields assigned from valid_draft_dict
Edited(draft_object, valid_draft_dict) ==
    [draft_object EXCEPT
       !.content = valid_draft_dict.content,
       !.topic = valid_draft_dict.topic,
       !.recipient_id = valid_draft_dict.recipient_id,
       !.last_edit_time = valid_draft_dict.last_edit_time]

\* do_edit_draft up to the call of save
do_edit_draft(s, draft_id, draft_dict, user_profile) ==
    LET valid_draft_dict == further_validated_draft_dict(draft_dict, user_profile, in_now) IN
    IF ~Found(draft_id, user_profile)
    THEN /\ Return(s, Call(s, "edit", user_profile, draft_id, <<draft_dict>>, 0,
                            "Draft does not exist"))
         /\ UNCHANGED <<store, next_id, events, written_by>>
    ELSE IF valid_draft_dict.error # ""
    THEN /\ Return(s, Call(s, "edit", user_profile, draft_id, <<draft_dict>>, 1,
                            valid_draft_dict.error))
         /\ UNCHANGED <<store, next_id, events, written_by>>
    ELSE /\ EventRoom
         /\ pc' = [pc EXCEPT ![s] = "save"]
         /\ frame' = [frame EXCEPT ![s] =
                Frame("edit", user_profile, draft_id, <<draft_dict>>,
                      <<Edited(store[draft_id], valid_draft_dict)>>)]
         /\ returned' = NoCall
         /\ UNCHANGED <<store, next_id, events, written_by>>

\* the edit view behind draft_endpoint
EditDraft(s, draft_id, draft_dict, user_profile) ==
    /\ pc[s] = "idle"
    /\ UNCHANGED <<valvars, enable_drafts_synchronization>>
    /\ IF draft_endpoint(user_profile) # ""
       THEN Rejected(s, "edit", user_profile, draft_id, <<draft_dict>>)
       ELSE do_edit_draft(s, draft_id, draft_dict, user_profile)

\* draft_object.save(): an UPDATE of the row with this id and, when no row
\* has it, an INSERT of the object under its id
Save(s) ==
    /\ pc[s] = "save"
    /\ LET draft_object == frame[s].draft_objects[1] IN
       /\ store' = [i \in DOMAIN store \cup {draft_object.id} |->
                      IF i = draft_object.id THEN draft_object ELSE store[i]]
       /\ written_by' = [i \in DOMAIN written_by \cup {draft_object.id} |->
                           IF i = draft_object.id THEN frame[s].draft_dicts[1]
                           ELSE written_by[i]]
    /\ pc' = [pc EXCEPT ![s] = "edit_send"]
    /\ frame' = [frame EXCEPT ![s].written = TRUE]
    /\ returned' = NoCall
    /\ UNCHANGED <<valvars, next_id, events, enable_drafts_synchronization>>

\* send_event(realm, {"type": "drafts", "op": "update", ...}, [user_profile.id])
SendUpdate(s) ==
    /\ pc[s] = "edit_send"
    /\ EventRoom
    /\ events' = Append(events,
            Event("update", <<to_dict(frame[s].draft_objects[1])>>,
                  frame[s].draft_objects[1].id, frame[s].user_profile))
    /\ Return(s, Returns(s, "ok"))
    /\ UNCHANGED <<valvars, store, next_id, enable_drafts_synchronization,
                   written_by>>

\* do_delete_draft up to the call of delete
do_delete_draft(s, draft_id, user_profile) ==
    IF ~Found(draft_id, user_profile)
    THEN /\ Return(s, Call(s, "delete", user_profile, draft_id, <<>>, 0,
                            "Draft does not exist"))
         /\ UNCHANGED <<store, next_id, events, written_by>>
    ELSE /\ EventRoom
         /\ pc' = [pc EXCEPT ![s] = "delete"]
         /\ frame' = [frame EXCEPT ![s] =
                Frame("delete", user_profile, draft_id, <<>>, <<store[draft_id]>>)]
         /\ returned' = NoCall
         /\ UNCHANGED <<store, next_id, events, written_by>>

\* the delete view behind draft_endpoint
DeleteDraft(s, draft_id, user_profile) ==
    /\ pc[s] = "idle"
    /\ UNCHANGED <<valvars, enable_drafts_synchronization>>
    /\ IF draft_endpoint(user_profile) # ""
       THEN Rejected(s, "delete", user_profile, draft_id, <<>>)
       ELSE do_delete_draft(s, draft_id, user_profile)

\* a delete that leaves the row in the table
Delete_KeepsRow(s) ==
    /\ pc[s] = "delete"
    /\ pc' = [pc EXCEPT ![s] = "delete_send"]
    /\ frame' = [frame EXCEPT ![s].written = TRUE]
    /\ returned' = NoCall
    /\ UNCHANGED <<valvars, store, next_id, events, enable_drafts_synchronization,
                   written_by>>

\* draft_object.delete(): removes the row with this id, if there is one
Delete(s) ==
    /\ pc[s] = "delete"
    /\ store' = [i \in DOMAIN store \ {frame[s].draft_objects[1].id} |-> store[i]]
    /\ pc' = [pc EXCEPT ![s] = "delete_send"]
    /\ frame' = [frame EXCEPT ![s].written = TRUE]
    /\ returned' = NoCall
    /\ UNCHANGED <<valvars, next_id, events, enable_drafts_synchronization,
                   written_by>>

\* send_event(realm, {"type": "drafts", "op": "remove", ...}, [user_profile.id])
SendRemove(s) ==
    /\ pc[s] = "delete_send"
    /\ EventRoom
    /\ events' = Append(events,
            Event("remove", <<>>, frame[s].draft_objects[1].id, frame[s].user_profile))
    /\ Return(s, Returns(s, "ok"))
    /\ UNCHANGED <<valvars, store, next_id, enable_drafts_synchronization,
                   written_by>>

\* the response of the request that just returned is handed to its client
Respond ==
    /\ returned # NoCall
    /\ returned' = NoCall
    /\ UNCHANGED <<valvars, store, next_id, events, enable_drafts_synchronization,
                   pc, frame, written_by>>

\* no request is in flight and no response is on its way
Serial == Quiescent /\ returned = NoCall

Init ==
    /\ in_dict = [type |-> "", to |-> <<>>, topic |-> <<>>, content |-> <<"h">>]
    /\ in_user = 1
    /\ in_now = 0
    /\ out = Failure("")
    /\ done = TRUE
    /\ InitOps
    /\ enable_drafts_synchronization \in [Users -> BOOLEAN]

Next ==
    \/ Respond
    \/ \E s \in Sessions :
        \/ \E u \in Users, ds \in Batches :
              Serial /\ CreateDrafts(s, ds, u)
        \/ \E u \in Users, id \in Ids, d \in OpDicts :
              Serial /\ EditDraft(s, id, d, u)
        \/ \E u \in Users, id \in Ids :
              Serial /\ DeleteDraft(s, id, u)
        \/ BulkCreate(s)
        \/ Save(s)
        \/ Delete(s)
        \/ WriteFails(s)
        \/ SendAdd(s)
        \/ SendUpdate(s)
        \/ SendRemove(s)

\* one request at a time: the next begins when the last has been answered
Spec == Init /\ [][Next]_vars

NextConc ==
    \/ Respond
    \/ \E s \in Sessions :
        \/ \E u \in Users, ds \in Batches :
              returned = NoCall /\ CreateDrafts(s, ds, u)
        \/ \E u \in Users, id \in Ids, d \in OpDicts :
              returned = NoCall /\ EditDraft(s, id, d, u)
        \/ \E u \in Users, id \in Ids :
              returned = NoCall /\ DeleteDraft(s, id, u)
        \/ BulkCreate(s)
        \/ Save(s)
        \/ Delete(s)
        \/ WriteFails(s)
        \/ SendAdd(s)
        \/ SendUpdate(s)
        \/ SendRemove(s)

\* only user 1 has synchronization on: every request that runs is user 1's
InitConc ==
    /\ Init
    /\ enable_drafts_synchronization = [u \in Users |-> u = 1]

\* requests of several sessions interleaved statement by statement
SpecConc == InitConc /\ [][NextConc]_vars

\* ------------------------------------------------------------ properties
ValidationErrors ==
    {"Timestamp must not be negative.", "Topic must not contain null bytes",
     "Must specify exactly 1 stream ID for stream messages", "Invalid stream ID",
     "Invalid user ID"}

NotFound == "Draft does not exist"
SyncDisabled == "User has disabled synchronizing drafts."

\* session s received a request in this step
Begun(s) ==
    /\ pc[s] = "idle"
    /\ (pc'[s] # "idle" \/ (returned' # NoCall /\ returned'.session = s))

\* the request session s received in this step, with its arguments
Args(s) == IF pc'[s] # "idle" THEN frame'[s] ELSE returned'

\* that request reached the function behind draft_endpoint
Called(s, ops) ==
    /\ Begun(s)
    /\ Args(s).op \in ops
    /\ enable_drafts_synchronization[Args(s).user_profile]

\* the request of session s ended in this step without touching table or events
EndsUntouched(s) ==
    /\ pc'[s] = "idle"
    /\ store' = store
    /\ events' = events

\* C1: a do_create_drafts call whose batch holds a dict that
\* further_validated_draft_dict refuses, at whatever position, returns that
\* error in the same step, leaves the table as it was and emits no event.
C1_CreateAllOrNothing ==
    [][\A s \in Sessions :
          (/\ Called(s, {"create"})
           /\ \E i \in 1..Len(Args(s).draft_dicts) :
                 further_validated_draft_dict(Args(s).draft_dicts[i],
                                              Args(s).user_profile, in_now).error # "")
          => (/\ EndsUntouched(s)
              /\ returned'.response \in ValidationErrors)]_vars

\* a batch of two whose second dict was refused, with drafts in the table
C1_Witness ==
    /\ returned.op = "create"
    /\ returned.index = 2
    /\ returned.response \in ValidationErrors
    /\ store # <<>>

\* C2: do_edit_draft and do_delete_draft by a user who does not own the id,
\* whether another user's draft has it or no draft has, return NotFound with
\* any draft dict, and change neither the table nor the events.
C2_ForeignDraftNotFound ==
    [][\A s \in Sessions :
          (/\ Called(s, {"edit", "delete"})
           /\ (Args(s).draft_id \in DOMAIN store =>
                  store[Args(s).draft_id].user_profile # Args(s).user_profile))
          => (/\ EndsUntouched(s)
              /\ returned'.response = NotFound)]_vars

\* a user was answered NotFound for a draft another user has in the table,
\* the edit carrying a dict that further_validated_draft_dict refuses
C2_Witness ==
    /\ returned.op = "edit"
    /\ returned.response = NotFound
    /\ returned.draft_id \in DOMAIN store
    /\ store[returned.draft_id].user_profile # returned.user_profile
    /\ further_validated_draft_dict(returned.draft_dicts[1], returned.user_profile,
                                    in_now).error # ""

\* C3: an event is emitted only by a request whose own write to the table
\* has completed, in a step that writes nothing, and it goes to that
\* request's user; a step in which a request returns an error emits no event.
C3_WriteBeforeEvent ==
    [][/\ (events' # events =>
             /\ Len(events') = Len(events) + 1
             /\ SubSeq(events', 1, Len(events)) = events
             /\ store' = store
             /\ \E s \in Sessions :
                   /\ pc[s] \in {"create_send", "edit_send", "delete_send"}
                   /\ frame[s].written
                   /\ events'[Len(events')].users = {frame[s].user_profile}
                   /\ returned' = Returns(s, "ok"))
       /\ (returned'.response \notin {"", "ok"} => events' = events)]_vars

\* a write failed after an earlier request had written and emitted
C3_Witness ==
    /\ returned.response = "DatabaseError"
    /\ events # <<>>
    /\ store # <<>>

\* the ids whose do_delete_draft has emitted its drafts/remove event
DeletedIds ==
    {events[i].draft_id : i \in {j \in 1..Len(events) : events[j].op = "remove"}}

\* C4: with one request at a time, once do_delete_draft has succeeded on an
\* id, do_delete_draft and do_edit_draft on that id by any user return
\* NotFound, change no row and emit no event.
C4_DeletedStaysNotFound ==
    [][\A s \in Sessions :
          (/\ Called(s, {"edit", "delete"})
           /\ Args(s).draft_id \in DeletedIds)
          => (/\ EndsUntouched(s)
              /\ returned'.response = NotFound)]_vars

\* the user who deleted a draft deleted it again and was answered NotFound
C4_Witness ==
    /\ returned.op = "delete"
    /\ returned.response = NotFound
    /\ returned.draft_id \in DeletedIds
    /\ \E i \in 1..Len(events) :
          /\ events[i].op = "remove"
          /\ events[i].draft_id = returned.draft_id
          /\ events[i].users = {returned.user_profile}

\* the addressing of a draft dict resolves to a recipient
Resolvable(draft_dict) ==
    \/ draft_dict.type = "stream"
    \/ (draft_dict.type = "private" /\ Len(draft_dict.to) > 0)

\* C6: every stored draft has recipient_id set exactly when the dict that
\* wrote it last is of type stream, or of type private with a non-empty to;
\* otherwise its recipient_id is None and its topic is empty.
C6_RecipientIffResolvable ==
    \A id \in DOMAIN store :
        /\ (store[id].recipient_id # None <=> Resolvable(written_by[id]))
        /\ (~Resolvable(written_by[id]) =>
               store[id].recipient_id = None /\ store[id].topic = <<>>)

\* an edit with unresolvable addressing replaced a draft created for a stream
C6_Witness ==
    \E id \in DOMAIN store :
        /\ ~Resolvable(written_by[id])
        /\ store[id].recipient_id = None
        /\ \E i \in 1..Len(events) :
              /\ events[i].op = "add"
              /\ \E k \in 1..Len(events[i].drafts) :
                    /\ events[i].drafts[k].id = id
                    /\ events[i].drafts[k].recipient_id = StreamRecipient(2)
        /\ \E i \in 1..Len(events) :
              events[i].op = "update" /\ events[i].draft_id = id

\* C8: a request through draft_endpoint by a user whose flag is off returns
\* the synchronization error in the same step: the view does not run, no row
\* changes and no event is emitted.
C8_DisabledUserRejected ==
    [][\A s \in Sessions :
          (/\ Begun(s)
           /\ ~enable_drafts_synchronization[Args(s).user_profile])
          => (/\ EndsUntouched(s)
              /\ returned'.response = SyncDisabled)]_vars

\* a user with the flag off was refused an edit of a draft in the table
C8_Witness ==
    /\ returned.response = SyncDisabled
    /\ returned.op = "edit"
    /\ ~enable_drafts_synchronization[returned.user_profile]
    /\ returned.draft_id \in DOMAIN store

TimestampRefused == "Timestamp must not be negative."

\* the call of further_validated_draft_dict accepted a stream draft
StreamAccepted == done /\ in_dict.type = "stream" /\ out.error = ""

\* C5 as claimed: an accepted stream draft has the recipient_id of the
\* stream access_stream_by_id resolved from to[0], and a topic that is
\* non-empty and holds no null byte.
C5_StreamTopicNonEmpty ==
    StreamAccepted =>
        /\ out.recipient_id = access_stream_by_id(in_user, in_dict.to[1]).recipient_id
        /\ out.recipient_id # None
        /\ out.topic # <<>>
        /\ "NUL" \notin SeqToSet(out.topic)

\* C5 as amended: an accepted stream draft has the recipient_id of the
\* stream access_stream_by_id resolved from to[0], and a topic that holds no
\* null byte and is empty only when the supplied topic is empty.
C5_StreamRecipientAndTopic ==
    StreamAccepted =>
        /\ Len(in_dict.to) = 1
        /\ out.recipient_id = access_stream_by_id(in_user, in_dict.to[1]).recipient_id
        /\ out.recipient_id # None
        /\ (out.topic = <<>> <=> in_dict.topic = <<>>)
        /\ "NUL" \notin SeqToSet(out.topic)

\* a stream draft was accepted with a topic of its own
C5_Witness ==
    /\ StreamAccepted
    /\ out.topic = <<"a">>
    /\ out.recipient_id = StreamRecipient(2)

\* C7 as claimed: every timestamp below zero is refused with the timestamp
\* error; every other one passes that check, and last_edit_time is the
\* timestamp rounded to 6 decimal places.
C7_NegativeTimestampRefused ==
    (done /\ "timestamp" \in DOMAIN in_dict) =>
        /\ (in_dict.timestamp < 0 => out.error = TimestampRefused)
        /\ (in_dict.timestamp >= 0 =>
              /\ out.error # TimestampRefused
              /\ (out.error = "" =>
                    out.last_edit_time = timestamp_to_datetime(round6(in_dict.timestamp))))

\* C9 as claimed: once do_delete_draft has succeeded on an id, no later
\* state has a draft with that id in the table.
C9_DeletionPermanent == \A id \in DeletedIds : id \notin DOMAIN store

\* what a client holds after applying the events for user u from the i-th on
RECURSIVE Replay(_, _, _)
Replay(i, u, replica) ==
    IF i > Len(events) THEN replica
    ELSE LET e == events[i]
             ids == {e.drafts[k].id : k \in 1..Len(e.drafts)}
             carried(id) == e.drafts[CHOOSE k \in 1..Len(e.drafts) : e.drafts[k].id = id]
         IN  IF u \notin e.users THEN Replay(i + 1, u, replica)
             ELSE IF e.op = "remove"
             THEN Replay(i + 1, u,
                         [id \in DOMAIN replica \ {e.draft_id} |-> replica[id]])
             ELSE Replay(i + 1, u,
                         [id \in DOMAIN replica \cup ids |->
                             IF id \in ids THEN carried(id) ELSE replica[id]])

\* what the table holds for user u, as events carry it
StoreView(u) ==
    [id \in {i \in DOMAIN store : store[i].user_profile = u} |-> to_dict(store[id])]

\* C10 as claimed: when every request has completed, a client that applied
\* the user's events in emission order holds the drafts the table holds.
C10_ReplayMatchesStore ==
    Quiescent => \A u \in Users : Replay(1, u, <<>>) = StoreView(u)

====
